---- MODULE Spec2Model ----
(***************************************************************************)
(* space-cli (node/src/bin/space-cli.rs): one process invocation parses    *)
(* its arguments into a session (SpaceCli) and a command, runs             *)
(* handle_commands on it and prints either the result or a report of the   *)
(* error it returned (main).                                               *)
(*                                                                         *)
(* Strings that the code inspects (space names, hex payloads) are          *)
(* sequences of one-character strings; strings it only passes on are TLA+  *)
(* strings.  Option<T> is a sequence of length at most one: None is <<>>   *)
(* and Some(x) is <<x>>.                                                   *)
(***************************************************************************)
EXTENDS Integers, Sequences, FiniteSets, TLC

VARIABLES
    pc,         \* "start" | "ready" (configured) | "done" (main returned or panicked)
    cli,        \* the SpaceCli session built by configure
    endpointUp, \* environment: whether the remote endpoint can be reached
    command,    \* args.command, as parsed
    calls,      \* outbound RPC calls made by this invocation, in order
    result,     \* what handle_commands returned (or that it panicked)
    output,     \* what the process printed
    written,    \* files written by this invocation
    lastHash    \* history: argument (if shorter than MaxLen) and output of the hashspace
                \* run just before this invocation

vars == <<pc, cli, endpointUp, command, calls, result, output, written, lastHash>>

-----------------------------------------------------------------------------
(* Bounds of the model *)

\* longest space name argument
MaxLen == 3
\* longest list of spaces given to transfer
MaxSpaces == 2
\* longest hex payload argument
MaxHexLen == 2
\* modelled width in bits of the u64 fee arithmetic
UBits == 12

-----------------------------------------------------------------------------
(* Option *)

None == <<>>
Some(x) == <<x>>
IsSome(o) == Len(o) = 1
Unwrap(o) == o[1]

-----------------------------------------------------------------------------
(* Strings *)

RECURSIVE SeqsUpTo(_, _)
SeqsUpTo(S, n) ==
    IF n = 0 THEN {<<>>}
    ELSE LET shorter == SeqsUpTo(S, n - 1)
         IN  shorter \cup {Append(s, c) : s \in {t \in shorter : Len(t) = n - 1}, c \in S}

\* characters of space name arguments: a lower-case letter, an upper-case
\* letter and the sigil
NameChars == {"a", "B", "@"}
Names == SeqsUpTo(NameChars, MaxLen)

\* u8::to_ascii_lowercase on the characters in use
ToAsciiLowercaseChar(c) == IF c = "B" THEN "b" ELSE IF c = "A" THEN "a" ELSE c

to_ascii_lowercase(s) == [i \in 1..Len(s) |-> ToAsciiLowercaseChar(s[i])]

starts_with(s, c) == Len(s) > 0 /\ s[1] = c

\* a plausible slip: the sigil is tested on the argument but the result is
\* not lower-cased when the sigil is already there
normalize_space_keeps_case(space) ==
    IF starts_with(space, "@") THEN space ELSE <<"@">> \o to_ascii_lowercase(space)

\* a plausible slip: the sigil is prefixed without looking for one
normalize_space_always_prefixes(space) == <<"@">> \o to_ascii_lowercase(space)

normalize_space(space) ==
    LET lowercase == to_ascii_lowercase(space)
    IN  IF starts_with(lowercase, "@") THEN lowercase ELSE <<"@">> \o lowercase

-----------------------------------------------------------------------------
(* Fee rates *)

\* largest value of the modelled unsigned width
UMax == 2 ^ UBits - 1

\* fee rates given on the command line: zero, an ordinary one, and one whose
\* conversion to sat/kwu overflows
FeeArgs == {0, 5, UMax}

\* FeeRate::from_sat_per_vb: sat_vb.checked_mul(1000 / 4), None on overflow
FeeRateFromSatPerVb(sat_vb) ==
    IF sat_vb * (1000 \div 4) > UMax THEN None ELSE Some(sat_vb * (1000 \div 4))

-----------------------------------------------------------------------------
(* Hex payloads *)

HexChars == {"0", "f", "g"}
HexArgs == SeqsUpTo(HexChars, MaxHexLen)

IsHexDigit(c) == c \in {"0", "f"}
HexVal(c) == IF c = "f" THEN 15 ELSE 0

\* hex::decode: odd length is refused first, then the first character that
\* is no hex digit; otherwise every pair of digits is one byte
hex_decode(data) ==
    IF Len(data) % 2 # 0 THEN [ok |-> FALSE, bytes |-> <<>>, err |-> "Odd number of digits"]
    ELSE IF \E i \in 1..Len(data) : ~IsHexDigit(data[i])
         THEN [ok |-> FALSE, bytes |-> <<>>, err |-> "Invalid character"]
         ELSE [ok |-> TRUE,
               bytes |-> [i \in 1..(Len(data) \div 2) |->
                            16 * HexVal(data[2 * i - 1]) + HexVal(data[2 * i])],
               err |-> ""]

-----------------------------------------------------------------------------
(* Space labels and hashing (protocol crate) *)

LenByte(n) == <<"0", "1", "2", "3", "4", "5", "6", "7", "8", "9">>[n + 1]

IsLabelChar(c) == c \in {"a", "b", "-"}

\* SLabel::from_str: the sigil, then a non-empty label of lower-case
\* characters; the label is kept length-prefixed
SLabelFromStr(space) ==
    IF /\ starts_with(space, "@")
       /\ Len(space) > 1
       /\ \A i \in 2..Len(space) : IsLabelChar(space[i])
    THEN [ok |-> TRUE, bytes |-> <<LenByte(Len(space) - 1)>> \o Tail(space), err |-> <<>>]
    ELSE [ok |-> FALSE, bytes |-> <<>>, err |-> <<"malformed name">>]

\* Sha256::hash, taken to be collision free: the digest stands for its input
Sha256Hash(bytes) == <<"sha256">> \o bytes

\* hex::encode
hex_encode(digest) == <<"hex">> \o digest

\* the same function applied to the argument as given
hash_space_of_raw(spaceish) ==
    LET sname == SLabelFromStr(spaceish)
    IN  IF sname.ok
        THEN [ok |-> TRUE, hex |-> hex_encode(Sha256Hash(sname.bytes)), err |-> <<>>]
        ELSE [ok |-> FALSE, hex |-> <<>>, err |-> sname.err]

hash_space(spaceish) ==
    LET space == normalize_space(spaceish)
        sname == SLabelFromStr(space)
    IN  IF sname.ok
        THEN [ok |-> TRUE, hex |-> hex_encode(Sha256Hash(sname.bytes)), err |-> <<>>]
        ELSE [ok |-> FALSE, hex |-> <<>>, err |-> sname.err]

\* SpaceScript::create_set_fallback: the script carrying the payload
create_set_fallback(bytes) == [op |-> "set_fallback", data |-> bytes]

-----------------------------------------------------------------------------
(* Session *)

Chains == {"mainnet", "regtest"}

\* default_spaces_rpc_port: one port per network
default_spaces_rpc_port(chain) == IF chain = "mainnet" THEN "<mainnet port>" ELSE "<regtest port>"

default_spaced_rpc_url(chain) == <<"http://127.0.0.1:", default_spaces_rpc_port(chain)>>

UrlArgs == {None, Some(<<"http://node.example:7000">>)}

\* the global flags --wallet, --dust, --force, --skip-tx-check
FlagArgs ==
    { [wallet |-> "default", dust |-> None, force |-> FALSE, skip_tx_check |-> FALSE],
      [wallet |-> "alice", dust |-> Some(600), force |-> TRUE, skip_tx_check |-> FALSE],
      [wallet |-> "default", dust |-> None, force |-> FALSE, skip_tx_check |-> TRUE] }

\* SpaceCli::configure
configure(chain, spaced_rpc_url, flags) ==
    [wallet |-> flags.wallet,
     dust |-> flags.dust,
     force |-> flags.force,
     skip_tx_check |-> flags.skip_tx_check,
     network |-> chain,
     rpc_url |-> IF IsSome(spaced_rpc_url) THEN Unwrap(spaced_rpc_url)
                 ELSE default_spaced_rpc_url(chain)]

NoCli == configure("mainnet", None, [wallet |-> "default", dust |-> None,
                                     force |-> FALSE, skip_tx_check |-> FALSE])

-----------------------------------------------------------------------------
(* Results and errors *)

\* the variants of jsonrpsee's client Error matched by main
ErrorVariants ==
    {"Call", "Transport", "RestartNeeded", "ParseError", "InvalidSubscriptionId",
     "InvalidRequestId", "RequestTimeout", "MaxSlotsExceeded", "Custom",
     "HttpNotImplemented", "EmptyBatchRequest", "RegisterMethod"}

NoResult == [tag |-> "none", variant |-> "", code |-> 0, message |-> <<>>]
OkResult == [tag |-> "Ok", variant |-> "", code |-> 0, message |-> <<>>]
Panic == [tag |-> "Panic", variant |-> "", code |-> 0, message |-> <<>>]
Err(variant, code, message) ==
    [tag |-> "Err", variant |-> variant, code |-> code, message |-> message]
Custom(message) == Err("Custom", 0, message)

\* rejections the remote service may answer with
RpcCodes == {64, -32000}
RpcMessages == {"insufficient funds", "no such wallet"}

\* what the remote end does with one request: a result, a structured
\* rejection, a body that does not decode, a response under another request
\* id, no response in time, or no connection at all
Replies ==
    {[kind |-> "result", code |-> 0, message |-> ""],
     [kind |-> "malformed", code |-> 0, message |-> ""],
     [kind |-> "wrong id", code |-> 0, message |-> ""],
     [kind |-> "silence", code |-> 0, message |-> ""],
     [kind |-> "refused", code |-> 0, message |-> ""]}
    \cup {[kind |-> "error", code |-> c, message |-> m] : c \in RpcCodes, m \in RpcMessages}

\* an unreachable endpoint either refuses the connection or never answers,
\* and then the client's request timeout ends the wait
RepliesNow ==
    IF endpointUp THEN Replies
    ELSE {[kind |-> "refused", code |-> 0, message |-> ""],
          [kind |-> "silence", code |-> 0, message |-> ""]}

\* the HTTP client's request: what the caller gets for a reply
client_result(reply) ==
    CASE reply.kind = "result" -> OkResult
      [] reply.kind = "error" -> Err("Call", reply.code, <<reply.message>>)
      [] reply.kind = "malformed" -> Err("ParseError", 0, <<"expected value">>)
      [] reply.kind = "wrong id" -> Err("InvalidRequestId", 0, <<"not pending request">>)
      [] reply.kind = "silence" -> Err("RequestTimeout", 0, <<>>)
      [] reply.kind = "refused" -> Err("Transport", 0, <<"connection refused">>)

\* stdout
NoOutput == [kind |-> "", code |-> 0, message |-> <<>>, url |-> <<>>, network |-> ""]
Printed(text) == [NoOutput EXCEPT !.kind = "result", !.message = text]

\* the line main prints for an error variant other than Call and Transport
ErrorLabel(variant) ==
    CASE variant = "RestartNeeded" -> "Restart needed"
      [] variant = "ParseError" -> "Parse error"
      [] variant = "InvalidSubscriptionId" -> "Invalid subscription ID"
      [] variant = "InvalidRequestId" -> "Invalid request ID"
      [] variant = "RequestTimeout" -> "Request timeout"
      [] variant = "MaxSlotsExceeded" -> "Max concurrent requests exceeded"
      [] variant = "Custom" -> "Custom error"
      [] variant = "HttpNotImplemented" -> "HTTP not implemented"
      [] variant = "EmptyBatchRequest" -> "Empty batch request"
      [] variant = "RegisterMethod" -> "Register method error"

\* whether the line carries the error's text
LabelHasText(variant) ==
    variant \notin {"InvalidSubscriptionId", "RequestTimeout", "MaxSlotsExceeded",
                    "HttpNotImplemented"}

\* a plausible slip: a response under the wrong request id reported as a parse error
report_error_merges_request_id(session, error) ==
    CASE error.variant = "Call" ->
           [NoOutput EXCEPT !.kind = "RpcError", !.code = error.code,
                            !.message = error.message]
      [] error.variant = "Transport" ->
           [NoOutput EXCEPT !.kind = "Transport error", !.message = error.message,
                            !.url = session.rpc_url, !.network = session.network]
      [] error.variant = "InvalidRequestId" ->
           [NoOutput EXCEPT !.kind = "Parse error", !.message = error.message]
      [] OTHER ->
           [NoOutput EXCEPT !.kind = ErrorLabel(error.variant),
                            !.message = IF LabelHasText(error.variant)
                                        THEN error.message ELSE <<>>]

\* a plausible slip: the rejection printed like the other errors, without its code
report_error_drops_code(session, error) ==
    CASE error.variant = "Call" ->
           [NoOutput EXCEPT !.kind = "RpcError", !.message = error.message]
      [] error.variant = "Transport" ->
           [NoOutput EXCEPT !.kind = "Transport error", !.message = error.message,
                            !.url = session.rpc_url, !.network = session.network]
      [] OTHER ->
           [NoOutput EXCEPT !.kind = ErrorLabel(error.variant),
                            !.message = IF LabelHasText(error.variant)
                                        THEN error.message ELSE <<>>]

\* a plausible slip: the transport error printed without the network
report_error_without_network(session, error) ==
    CASE error.variant = "Call" ->
           [NoOutput EXCEPT !.kind = "RpcError", !.code = error.code,
                            !.message = error.message]
      [] error.variant = "Transport" ->
           [NoOutput EXCEPT !.kind = "Transport error", !.message = error.message,
                            !.url = session.rpc_url]
      [] OTHER ->
           [NoOutput EXCEPT !.kind = ErrorLabel(error.variant),
                            !.message = IF LabelHasText(error.variant)
                                        THEN error.message ELSE <<>>]

\* main's match on the error returned by handle_commands
report_error(session, error) ==
    CASE error.variant = "Call" ->
           [NoOutput EXCEPT !.kind = "RpcError", !.code = error.code,
                            !.message = error.message]
      [] error.variant = "Transport" ->
           [NoOutput EXCEPT !.kind = "Transport error", !.message = error.message,
                            !.url = session.rpc_url, !.network = session.network]
      [] OTHER ->
           [NoOutput EXCEPT !.kind = ErrorLabel(error.variant),
                            !.message = IF LabelHasText(error.variant)
                                        THEN error.message ELSE <<>>]

\* main: what is on stdout once the process ends, given what the handler
\* printed on its way
main(session, res, printed) ==
    CASE res.tag = "Ok" -> printed
      [] res.tag = "Err" -> report_error(session, res)
      [] OTHER -> NoOutput

-----------------------------------------------------------------------------
(* Arguments of the commands *)

OptFeeArgs == {None} \cup {Some(f) : f \in FeeArgs}

\* names given where several arguments combine
FewNames == {<<"a">>, <<"B">>, <<"@", "a">>, <<"@", "B">>}
ListNames == {<<"a">>, <<"B">>, <<"@", "B">>}
SpaceListArgs == SeqsUpTo(ListNames, MaxSpaces)

\* recipients: a space name and an address
ToArgs == {<<"@", "B">>, <<"b", "c", "1", "q">>}
AddressArgs == {None, Some("bc1q")}

AmountArgs == {1000, 2000}
PairsArgs == {0, 1, 255}

\* the wallet file named by importwallet, as the file system presents it
WalletFiles == {"unreadable", "malformed", "valid"}

NoCommand == [name |-> ""]

NoHash == [valid |-> FALSE, space |-> <<>>, out |-> NoOutput]

-----------------------------------------------------------------------------
(* Outbound calls *)

Call(method, params, reply) == [method |-> method, params |-> params, reply |-> reply]

Response(method) == Printed(<<method, "response">>)

\* the end of one invocation: handle_commands has made the calls cs and
\* returned res (having printed `printed` if it got that far), main has
\* reported, and the files wr are written
Finish(cmd, cs, res, printed, wr, hist) ==
    /\ pc = "ready"
    /\ pc' = "done"
    /\ command' = cmd
    /\ calls' = cs
    /\ result' = res
    /\ output' = main(cli, res, printed)
    /\ written' = wr
    /\ lastHash' = hist
    /\ UNCHANGED <<cli, endpointUp>>

\* a plausible slip: a failed request sent once more
Request_retries_on_failure(cmd, method, params, printed) ==
    \E reply \in RepliesNow, again \in RepliesNow :
        IF reply.kind = "result"
        THEN Finish(cmd, <<Call(method, params, reply)>>, client_result(reply), printed, {},
                    NoHash)
        ELSE Finish(cmd, <<Call(method, params, reply), Call(method, params, again)>>,
                    client_result(again), printed, {}, NoHash)

\* one request through the client, its error returned with `?`
Request(cmd, method, params, printed) ==
    \E reply \in RepliesNow :
        Finish(cmd, <<Call(method, params, reply)>>, client_result(reply), printed, {},
               NoHash)

\* fee_rate.map(|fee| FeeRate::from_sat_per_vb(fee).unwrap()), where it does not panic
fee_rate_map(fee_rate) ==
    IF IsSome(fee_rate) THEN FeeRateFromSatPerVb(Unwrap(fee_rate)) ELSE None

FeeRatePanics(fee_rate) == IsSome(fee_rate) /\ ~IsSome(FeeRateFromSatPerVb(Unwrap(fee_rate)))

\* match req { None => vec![], Some(req) => vec![req] }
requests_of(req) == IF IsSome(req) THEN <<Unwrap(req)>> ELSE <<>>

RpcWalletTxBuilder(session, req, bidouts, fee_rate, confirmed_only) ==
    [bidouts |-> bidouts,
     requests |-> requests_of(req),
     fee_rate |-> fee_rate_map(fee_rate),
     dust |-> session.dust,
     force |-> session.force,
     confirmed_only |-> confirmed_only,
     skip_tx_check |-> session.skip_tx_check]

\* SpaceCli::send_request
send_request(cmd, req, bidouts, fee_rate, confirmed_only) ==
    IF FeeRatePanics(fee_rate)
    THEN Finish(cmd, <<>>, Panic, NoOutput, {}, NoHash)
    ELSE Request(cmd, "wallet_send_request",
                 [wallet |-> cli.wallet,
                  tx |-> RpcWalletTxBuilder(cli, req, bidouts, fee_rate, confirmed_only)],
                 Response("wallet_send_request"))

-----------------------------------------------------------------------------
(* The process *)

Init ==
    /\ pc = "start"
    /\ cli = NoCli
    /\ endpointUp = TRUE
    /\ command = NoCommand
    /\ calls = <<>>
    /\ result = NoResult
    /\ output = NoOutput
    /\ written = {}
    /\ lastHash = NoHash

\* Args::parse and SpaceCli::configure of a new invocation
Configure ==
    /\ pc = "start"
    /\ \E chain \in Chains, url \in UrlArgs, flags \in FlagArgs :
           cli' = configure(chain, url, flags)
    /\ endpointUp' \in BOOLEAN
    /\ pc' = "ready"
    /\ UNCHANGED <<command, calls, result, output, written, lastHash>>

\* the process ends; the next invocation starts afresh
Exit ==
    /\ pc = "done"
    /\ pc' = "start"
    /\ cli' = NoCli
    /\ endpointUp' = TRUE
    /\ command' = NoCommand
    /\ calls' = <<>>
    /\ result' = NoResult
    /\ output' = NoOutput
    /\ written' = {}
    /\ lastHash' = IF command.name = "hashspace" /\ Len(command.space) < MaxLen
                   THEN [valid |-> TRUE, space |-> command.space, out |-> output]
                   ELSE NoHash

-----------------------------------------------------------------------------
(* handle_commands, one action per command *)

GetRollout ==
    /\ pc = "ready"
    /\ \E target \in {0, 1} :
        Request([name |-> "getrollout", target |-> target], "get_rollout",
                <<target>>, Response("get_rollout"))

EstimateBid ==
    /\ pc = "ready"
    /\ \E target \in {0, 1} :
        Request([name |-> "estimatebid", target |-> target], "estimate_bid",
                <<target>>, Response("estimate_bid"))

GetSpace ==
    /\ pc = "ready"
    /\ \E space \in Names :
        LET cmd == [name |-> "getspace", space |-> space]
            space_hash == hash_space(space)
        IN  IF space_hash.ok
            THEN Request(cmd, "get_space", <<space_hash.hex>>, Response("get_space"))
            ELSE Finish(cmd, <<>>, Custom(space_hash.err), NoOutput, {}, NoHash)

GetSpaceOut ==
    /\ pc = "ready"
    /\ \E outpoint \in {"txid:0"} :
        Request([name |-> "getspaceout", outpoint |-> outpoint], "get_spaceout",
                <<outpoint>>, Response("get_spaceout"))

CreateWallet ==
    /\ pc = "ready"
    /\ Request([name |-> "createwallet"], "wallet_create", <<cli.wallet>>, NoOutput)

LoadWallet ==
    /\ pc = "ready"
    /\ Request([name |-> "loadwallet"], "wallet_load", <<cli.wallet>>, NoOutput)

ImportWallet ==
    /\ pc = "ready"
    /\ \E file \in WalletFiles :
        LET cmd == [name |-> "importwallet", file |-> file]
        IN  CASE file = "unreadable" ->
                   Finish(cmd, <<>>, Custom(<<"No such file or directory">>), NoOutput, {},
                          NoHash)
              [] file = "malformed" ->
                   Finish(cmd, <<>>, Err("ParseError", 0, <<"expected value">>), NoOutput,
                          {}, NoHash)
              [] OTHER ->
                   Request(cmd, "wallet_import", <<"wallet export">>, NoOutput)

ExportWallet ==
    /\ pc = "ready"
    /\ \E path \in {"wallet.json"}, writable \in BOOLEAN :
        LET cmd == [name |-> "exportwallet", path |-> path, writable |-> writable]
        IN  \E reply \in RepliesNow :
                LET call == Call("wallet_export", <<cli.wallet>>, reply)
                    got == client_result(reply)
                IN  IF got.tag # "Ok" THEN Finish(cmd, <<call>>, got, NoOutput, {}, NoHash)
                    ELSE IF writable
                    THEN Finish(cmd, <<call>>, OkResult, NoOutput, {path}, NoHash)
                    ELSE Finish(cmd, <<call>>,
                                Custom(<<"Could not save to path: ", "Permission denied">>),
                                NoOutput, {}, NoHash)

GetWalletInfo ==
    /\ pc = "ready"
    /\ Request([name |-> "getwalletinfo"], "wallet_get_info", <<cli.wallet>>,
            Response("wallet_get_info"))

GetServerInfo ==
    /\ pc = "ready"
    /\ Request([name |-> "getserverinfo"], "get_server_info", <<>>,
            Response("get_server_info"))

Open ==
    /\ pc = "ready"
    /\ \E space \in Names, initial_bid \in {1000}, fee_rate \in OptFeeArgs :
        send_request([name |-> "open", space |-> space, initial_bid |-> initial_bid,
                      fee_rate |-> fee_rate],
                     Some([kind |-> "Open", name |-> normalize_space(space),
                           amount |-> initial_bid]),
                     None, fee_rate, FALSE)

Bid ==
    /\ pc = "ready"
    /\ \E space \in FewNames, amount \in AmountArgs, fee_rate \in OptFeeArgs,
       confirmed_only \in BOOLEAN :
        send_request([name |-> "bid", space |-> space, amount |-> amount,
                      fee_rate |-> fee_rate, confirmed_only |-> confirmed_only],
                     Some([kind |-> "Bid", name |-> normalize_space(space),
                           amount |-> amount]),
                     None, fee_rate, confirmed_only)

CreateBidOuts ==
    /\ pc = "ready"
    /\ \E pairs \in PairsArgs, fee_rate \in OptFeeArgs :
        send_request([name |-> "createbidouts", pairs |-> pairs, fee_rate |-> fee_rate],
                     None, Some(pairs), fee_rate, FALSE)

Register ==
    /\ pc = "ready"
    /\ \E space \in FewNames, address \in AddressArgs, fee_rate \in OptFeeArgs :
        send_request([name |-> "register", space |-> space, address |-> address,
                      fee_rate |-> fee_rate],
                     Some([kind |-> "Register", name |-> normalize_space(space),
                           to |-> address]),
                     None, fee_rate, FALSE)

Transfer ==
    /\ pc = "ready"
    /\ \E spaces \in SpaceListArgs, to \in ToArgs, fee_rate \in OptFeeArgs :
        send_request([name |-> "transfer", spaces |-> spaces, to |-> to,
                      fee_rate |-> fee_rate],
                     Some([kind |-> "Transfer",
                           spaces |-> [i \in 1..Len(spaces) |-> normalize_space(spaces[i])],
                           to |-> to]),
                     None, fee_rate, FALSE)

SendCoins ==
    /\ pc = "ready"
    /\ \E amount \in AmountArgs, to \in ToArgs, fee_rate \in OptFeeArgs :
        send_request([name |-> "send", amount |-> amount, to |-> to,
                      fee_rate |-> fee_rate],
                     Some([kind |-> "SendCoins", amount |-> amount, to |-> to]),
                     None, fee_rate, FALSE)

SetRawFallback ==
    /\ pc = "ready"
    /\ \E space \in {<<"B">>, <<"@", "a">>}, data \in HexArgs, fee_rate \in OptFeeArgs :
        LET cmd == [name |-> "setrawfallback", space |-> space, data |-> data,
                    fee_rate |-> fee_rate]
            decoded == hex_decode(data)
        IN  IF ~decoded.ok
            THEN Finish(cmd, <<>>,
                        Custom(<<"Could not hex decode data: ", decoded.err>>),
                        NoOutput, {}, NoHash)
            ELSE send_request(cmd,
                              Some([kind |-> "Execute",
                                    context |-> <<normalize_space(space)>>,
                                    space_script |-> create_set_fallback(decoded.bytes)]),
                              None, fee_rate, FALSE)

ListUnspent ==
    /\ pc = "ready"
    /\ Request([name |-> "listunspent"], "wallet_list_unspent", <<cli.wallet>>,
            Response("wallet_list_unspent"))

ListBidOuts ==
    /\ pc = "ready"
    /\ Request([name |-> "listbidouts"], "wallet_list_bidouts", <<cli.wallet>>,
            Response("wallet_list_bidouts"))

ListTransactions ==
    /\ pc = "ready"
    /\ \E count \in {10}, skip \in {0} :
        Request([name |-> "listtransactions", count |-> count, skip |-> skip],
                "wallet_list_transactions", <<cli.wallet, count, skip>>,
                Response("wallet_list_transactions"))

ListSpaces ==
    /\ pc = "ready"
    /\ Request([name |-> "listspaces"], "wallet_list_spaces", <<cli.wallet>>,
            Response("wallet_list_spaces"))

Balance ==
    /\ pc = "ready"
    /\ Request([name |-> "balance"], "wallet_get_balance", <<cli.wallet>>,
            Response("wallet_get_balance"))

GetCoinAddress ==
    /\ pc = "ready"
    /\ Request([name |-> "getnewaddress"], "wallet_get_new_address", <<cli.wallet, "Coin">>,
            Response("wallet_get_new_address"))

GetSpaceAddress ==
    /\ pc = "ready"
    /\ Request([name |-> "getnewspaceaddress"], "wallet_get_new_address",
            <<cli.wallet, "Space">>, Response("wallet_get_new_address"))

BumpFee ==
    /\ pc = "ready"
    /\ \E txid \in {"txid"}, fee_rate \in FeeArgs :
        LET cmd == [name |-> "bumpfee", txid |-> txid, fee_rate |-> Some(fee_rate)]
        IN  IF FeeRatePanics(Some(fee_rate))
            THEN Finish(cmd, <<>>, Panic, NoOutput, {}, NoHash)
            ELSE Request(cmd, "wallet_bump_fee",
                         [wallet |-> cli.wallet, txid |-> txid,
                          fee_rate |-> FeeRateFromSatPerVb(fee_rate),
                          skip_tx_check |-> cli.skip_tx_check],
                         Response("wallet_bump_fee"))

ForceSpend ==
    /\ pc = "ready"
    /\ \E outpoint \in {"txid:0"}, fee_rate \in FeeArgs :
        LET cmd == [name |-> "forcespend", outpoint |-> outpoint,
                    fee_rate |-> Some(fee_rate)]
        IN  IF FeeRatePanics(Some(fee_rate))
            THEN Finish(cmd, <<>>, Panic, NoOutput, {}, NoHash)
            ELSE Request(cmd, "wallet_force_spend",
                         [wallet |-> cli.wallet, outpoint |-> outpoint,
                          fee_rate |-> FeeRateFromSatPerVb(fee_rate)],
                         Response("wallet_force_spend"))

HashSpace ==
    /\ pc = "ready"
    /\ \E space \in Names :
        LET cmd == [name |-> "hashspace", space |-> space]
            hashed == hash_space(space)
        IN  IF hashed.ok
            THEN Finish(cmd, <<>>, OkResult, Printed(hashed.hex), {}, lastHash)
            ELSE Finish(cmd, <<>>, Custom(hashed.err), NoOutput, {}, lastHash)

-----------------------------------------------------------------------------
(* Specifications *)

Next ==
    \/ Configure
    \/ Exit
    \/ GetRollout
    \/ EstimateBid
    \/ GetSpace
    \/ GetSpaceOut
    \/ CreateWallet
    \/ LoadWallet
    \/ ImportWallet
    \/ ExportWallet
    \/ GetWalletInfo
    \/ GetServerInfo
    \/ Open
    \/ Bid
    \/ CreateBidOuts
    \/ Register
    \/ Transfer
    \/ SendCoins
    \/ SetRawFallback
    \/ ListUnspent
    \/ ListBidOuts
    \/ ListTransactions
    \/ ListSpaces
    \/ Balance
    \/ GetCoinAddress
    \/ GetSpaceAddress
    \/ BumpFee
    \/ ForceSpend
    \/ HashSpace

\* the command line client
Spec == Init /\ [][Next]_vars

-----------------------------------------------------------------------------
(* Vocabulary of the claims *)

\* the reportable category a printed report stands for
CategoryOf(kind) ==
    CASE kind = "Transport error" -> "Transport"
      [] kind = "Parse error" -> "ProtocolDecode"
      [] kind = "RpcError" -> "RemoteRejected"
      [] kind = "Invalid subscription ID" -> "SubscriptionInvalid"
      [] kind = "Request timeout" -> "RequestTimeout"
      [] kind = "Max concurrent requests exceeded" -> "CapacityExceeded"
      [] kind = "Custom error" -> "LocalValidation"
      [] OTHER -> "none"

SevenCategories ==
    {"Transport", "ProtocolDecode", "RemoteRejected", "SubscriptionInvalid",
     "RequestTimeout", "CapacityExceeded", "LocalValidation"}

\* the twelve reports main can print for an error
ReportKinds ==
    {"RpcError", "Transport error", "Restart needed", "Parse error",
     "Invalid subscription ID", "Invalid request ID", "Request timeout",
     "Max concurrent requests exceeded", "Custom error", "HTTP not implemented",
     "Empty batch request", "Register method error"}

\* the variants whose report is one of the seven categories
CategorisedVariants ==
    {"Call", "Transport", "ParseError", "InvalidSubscriptionId", "RequestTimeout",
     "MaxSlotsExceeded", "Custom"}

FeeCommands ==
    {"open", "bid", "register", "transfer", "send", "createbidouts", "setrawfallback",
     "bumpfee", "forcespend"}

SubmitCommands ==
    {"open", "bid", "register", "transfer", "send", "setrawfallback", "createbidouts"}

MutatingCommands ==
    SubmitCommands \cup {"createwallet", "loadwallet", "importwallet", "exportwallet",
                         "bumpfee", "forcespend"}

Finished == pc = "done"

IsNormalized(s) == starts_with(s, "@") /\ \A i \in 1..Len(s) : s[i] \notin {"A", "B"}

\* two arguments name the same space: equal up to ASCII case and one leading sigil
StripSigil(s) == IF starts_with(s, "@") THEN Tail(s) ELSE s
SameName(s, t) == StripSigil(to_ascii_lowercase(s)) = StripSigil(to_ascii_lowercase(t))

\* the operations of the submitted transaction request
SubmittedRequests ==
    IF calls # <<>> /\ calls[1].method = "wallet_send_request"
    THEN calls[1].params.tx.requests ELSE <<>>

\* the mutating command ends before any request is sent: a wallet file that
\* cannot be read or parsed, a payload that is not hex, a fee rate whose
\* conversion panics
FailsBeforeCall(cmd) ==
    \/ cmd.name = "importwallet" /\ cmd.file # "valid"
    \/ cmd.name = "setrawfallback" /\ ~hex_decode(cmd.data).ok
    \/ cmd.name \in FeeCommands /\ FeeRatePanics(cmd.fee_rate)

\* the command failed before its request was built or sent
FailsLocally(cmd) ==
    \/ cmd.name = "setrawfallback" /\ ~hex_decode(cmd.data).ok
    \/ FeeRatePanics(cmd.fee_rate)

-----------------------------------------------------------------------------
(* Claims *)

\* The callers of send_request: every transmitted transaction request carries
\* one operation and no bid-output count, or no operation and a bid-output
\* count; handle_commands never builds one with neither.
RequestsCarryOperationOrBidouts ==
    \A i \in 1..Len(calls) :
        calls[i].method = "wallet_send_request"
        => LET tx == calls[i].params.tx
           IN  \/ Len(tx.requests) = 1 /\ ~IsSome(tx.bidouts)
               \/ Len(tx.requests) = 0 /\ IsSome(tx.bidouts)

\* C2 (as claimed): a fee rate of 0, or one that does not convert to a fee
\* rate, fails with LocalValidation and nothing is transmitted.
C2_ZeroFeeRateFailsLocally ==
    (/\ Finished
     /\ command.name \in FeeCommands
     /\ IsSome(command.fee_rate)
     /\ \/ Unwrap(command.fee_rate) = 0
        \/ ~IsSome(FeeRateFromSatPerVb(Unwrap(command.fee_rate))))
    => (CategoryOf(output.kind) = "LocalValidation" /\ calls = <<>>)

\* C3 (as claimed): every submitting command whose handle_commands call
\* returns has issued exactly one outbound request, never two and never zero.
C3_ExactlyOneRequestAlways ==
    (Finished /\ command.name \in SubmitCommands /\ result.tag \in {"Ok", "Err"})
    => Len(calls) = 1

\* C3 (amended): a submitting command issues exactly one outbound request,
\* wallet_send_request carrying at most one operation, unless it fails
\* before transmission (hex payload that does not decode, fee rate whose
\* conversion panics), and then it issues none; it never issues two.
C3_OneRequestUnlessLocalFailure ==
    (Finished /\ command.name \in SubmitCommands)
    => /\ Len(calls) = (IF FailsLocally(command) THEN 0 ELSE 1)
       /\ \A i \in 1..Len(calls) :
             /\ calls[i].method = "wallet_send_request"
             /\ Len(calls[i].params.tx.requests)
                  = (IF command.name = "createbidouts" THEN 0 ELSE 1)

C3_Witness ==
    /\ Finished
    /\ command.name = "transfer"
    /\ Len(calls) = 1
    /\ result.tag = "Err"

\* C4 (as claimed): every failure handle_commands returns is reported under
\* one of the seven categories.
C4_SevenCategoriesCoverAll ==
    (Finished /\ result.tag = "Err") => CategoryOf(output.kind) \in SevenCategories

\* C4 (amended): main maps every variant of the error type to exactly one
\* report and different variants to different reports, twelve in all; the
\* seven categories are the reports of Call, Transport, ParseError,
\* InvalidSubscriptionId, RequestTimeout, MaxSlotsExceeded and Custom, and
\* the other five variants are reported under headings of their own.
C4_TwelveReportsTotal ==
    /\ \A v \in ErrorVariants :
          /\ report_error(cli, Err(v, 0, <<>>)).kind \in ReportKinds
          /\ (CategoryOf(report_error(cli, Err(v, 0, <<>>)).kind) \in SevenCategories)
               <=> (v \in CategorisedVariants)
    /\ \A v, w \in ErrorVariants :
          v # w => report_error(cli, Err(v, 0, <<>>)).kind
                     # report_error(cli, Err(w, 0, <<>>)).kind
    /\ (Finished /\ result.tag = "Err")
       => /\ output = report_error(cli, result)
          /\ output.kind \in ReportKinds

C4_Witness ==
    /\ Finished
    /\ result.tag = "Err"
    /\ result.variant = "InvalidRequestId"
    /\ output.kind = "Invalid request ID"

\* C5: when the remote service answers a command with a structured
\* rejection {code, message}, the report is the rejection with that code and
\* that message, and nothing else.
C5_RejectionReportedVerbatim ==
    (Finished /\ calls # <<>> /\ calls[Len(calls)].reply.kind = "error")
    => /\ CategoryOf(output.kind) = "RemoteRejected"
       /\ output.code = calls[Len(calls)].reply.code
       /\ output.message = <<calls[Len(calls)].reply.message>>
       /\ output.url = <<>>
       /\ output.network = ""

C5_Witness ==
    /\ Finished
    /\ calls # <<>>
    /\ calls[1].reply = [kind |-> "error", code |-> 64, message |-> "insufficient funds"]
    /\ output.kind = "RpcError"
    /\ output.code = 64

\* C6 (as claimed): for every mutating command, when the endpoint is
\* unreachable the outcome is a Transport error naming the session's endpoint
\* URL and network, with at most one call made and no file written.
C6_UnreachableAlwaysTransport ==
    (Finished /\ command.name \in MutatingCommands /\ ~endpointUp)
    => /\ CategoryOf(output.kind) = "Transport"
       /\ output.url = cli.rpc_url
       /\ output.network = cli.network
       /\ Len(calls) <= 1
       /\ written = {}

\* C6 (amended): for every mutating command run while the endpoint is
\* unreachable, the session is unchanged, no file is written and at most one
\* call is made.  A command that ends before sending (wallet file unreadable
\* or malformed, payload not hex, fee rate conversion panicking) makes no
\* call and reports a Custom error, a Parse error or, on the panic, nothing.
\* Otherwise exactly one call is made and the report is either a Transport
\* error naming the session's endpoint URL and network (connection refused)
\* or a Request timeout naming neither (no answer in time).
C6_UnreachableEndpointReported ==
    [][(/\ pc = "ready"
        /\ pc' = "done"
        /\ command'.name \in MutatingCommands
        /\ ~endpointUp)
       => /\ cli' = cli
          /\ written' = {}
          /\ IF FailsBeforeCall(command')
             THEN /\ calls' = <<>>
                  /\ \/ result'.tag = "Panic" /\ output'.kind = ""
                     \/ result'.tag = "Err"
                        /\ output'.kind \in {"Custom error", "Parse error"}
                        /\ output'.url = <<>>
                        /\ output'.network = ""
             ELSE /\ Len(calls') = 1
                  /\ result'.tag = "Err"
                  /\ \/ /\ calls'[1].reply.kind = "refused"
                        /\ CategoryOf(output'.kind) = "Transport"
                        /\ output'.url = cli.rpc_url
                        /\ output'.network = cli.network
                        /\ output'.network \in Chains
                     \/ /\ calls'[1].reply.kind = "silence"
                        /\ CategoryOf(output'.kind) = "RequestTimeout"
                        /\ output'.url = <<>>
                        /\ output'.network = ""]_vars

C6_Witness ==
    /\ Finished
    /\ command.name = "exportwallet"
    /\ ~endpointUp
    /\ Len(calls) = 1
    /\ output.kind = "Transport error"
    /\ output.network = "regtest"
    /\ written = {}

\* C7 (as claimed): every space name in a submitted operation is normalized,
\* a recipient given as a space name (Transfer.to, SendCoins.to) included.
C7_AllNamesAndRecipientsNormalized ==
    \A i \in 1..Len(SubmittedRequests) :
        LET r == SubmittedRequests[i]
        IN  /\ r.kind \in {"Open", "Bid", "Register"} => IsNormalized(r.name)
            /\ r.kind = "Transfer" => \A k \in 1..Len(r.spaces) : IsNormalized(r.spaces[k])
            /\ r.kind = "Execute" => \A k \in 1..Len(r.context) : IsNormalized(r.context[k])
            /\ (r.kind \in {"Transfer", "SendCoins"} /\ starts_with(r.to, "@"))
                 => IsNormalized(r.to)

\* C7 (amended): the name of Open, Bid and Register, every element of
\* Transfer's list and every element of Execute's context are normalized in
\* the submitted request; the recipient of Transfer and SendCoins is
\* submitted exactly as given on the command line, not normalized.
C7_NamesNormalizedRecipientsVerbatim ==
    (Finished /\ command.name \in SubmitCommands)
    => \A i \in 1..Len(SubmittedRequests) :
          LET r == SubmittedRequests[i]
          IN  /\ r.kind \in {"Open", "Bid", "Register"} => IsNormalized(r.name)
              /\ r.kind = "Transfer"
                   => /\ Len(r.spaces) = Len(command.spaces)
                      /\ \A k \in 1..Len(r.spaces) : IsNormalized(r.spaces[k])
              /\ r.kind = "Execute"
                   => /\ Len(r.context) = 1
                      /\ \A k \in 1..Len(r.context) : IsNormalized(r.context[k])
              /\ r.kind \in {"Transfer", "SendCoins"} => r.to = command.to

C7_Witness ==
    /\ Finished
    /\ command.name = "transfer"
    /\ Len(SubmittedRequests) = 1
    /\ command.spaces = <<<<"@", "B">>, <<"a">>>>
    /\ command.to = <<"@", "B">>
    /\ SubmittedRequests[1].to = <<"@", "B">>

\* C8: normalize_space is idempotent and its result starts with the sigil:
\* the name open submits for any argument starts with '@' and normalizes to
\* itself.
C8_NormalizeIdempotent ==
    (Finished /\ command.name = "open" /\ Len(SubmittedRequests) = 1)
    => LET n == SubmittedRequests[1].name
       IN  /\ starts_with(n, "@")
           /\ normalize_space(n) = n
           /\ Len(n) \in {Len(command.space), Len(command.space) + 1}

C8_Witness ==
    /\ Finished
    /\ command.name = "open"
    /\ Len(SubmittedRequests) = 1
    /\ Len(command.space) = MaxLen
    /\ command.space[1] = "B"
    /\ SubmittedRequests[1].name[1] = "@"

\* C9: hashspace makes no outbound call, and two runs whose arguments
\* normalize to the same name print the same output, whatever the sessions.
C9_HashSpaceLocalAndDeterministic ==
    (Finished /\ command.name = "hashspace")
    => /\ calls = <<>>
       /\ written = {}
       /\ (lastHash.valid /\ SameName(lastHash.space, command.space))
          => output = lastHash.out

C9_Witness ==
    /\ Finished
    /\ command.name = "hashspace"
    /\ calls = <<>>
    /\ lastHash.valid
    /\ lastHash.space = <<"a", "B">>
    /\ command.space = <<"@", "a", "B">>
    /\ output.kind = "result"
    /\ output = lastHash.out

\* C10 (as claimed): every failure detected before any network call is
\* reported as LocalValidation.
C10_LocalFailuresAreLocalValidation ==
    (Finished /\ result.tag = "Err" /\ calls = <<>>)
    => CategoryOf(output.kind) = "LocalValidation"

\* C11 (as claimed): transfer given no space name is rejected locally and
\* makes no outbound call, so no submitted request holds a Transfer with an
\* empty list of spaces.
C11_TransferNeedsNames ==
    /\ (Finished /\ command.name = "transfer" /\ Len(command.spaces) = 0)
       => (CategoryOf(output.kind) = "LocalValidation" /\ calls = <<>>)
    /\ \A i \in 1..Len(SubmittedRequests) :
          SubmittedRequests[i].kind = "Transfer" => Len(SubmittedRequests[i].spaces) > 0

====
